---- MODULE Spec2Model ----
(***************************************************************************)
(* Tic-tac-toe engine of tic_tac_toe_frontend: outcome detection and move  *)
(* selection (src/tic_tac_toe_frontend/src/ai/minimax.js, lines 129-366).  *)
(*                                                                         *)
(* A board is a sequence of cells; JavaScript index i is position i + 1.   *)
(* Cells hold "X", "O" or Null; a read outside the array yields Undefined. *)
(* Math.random() is a draw k of 0..RandDenom-1 standing for k / RandDenom. *)
(*                                                                         *)
(* The second part is the App component that calls the engine              *)
(* (src/tic_tac_toe_frontend/src/App.js): its state, its event handlers,   *)
(* its effects and the deferred AI callback.                               *)
(***************************************************************************)
EXTENDS Integers, Sequences, FiniteSets, TLC

VARIABLES
  board,        \* the board argument / the board of the game being played
  aiSymbol,     \* aiSymbol argument of getAiMove
  humanSymbol,  \* humanSymbol argument of getAiMove
  difficulty,   \* difficulty argument of getAiMove
  move,         \* value returned by getAiMove (NoMove for null)
  branch,       \* which return statement produced the value
  outcome,      \* value returned by getGameOutcome
  turn,         \* symbol to move in a game
  scenario,     \* which caller is modelled
  pc            \* "idle" before a call, "gotOutcome" / "gotMove" after it, "play" in a game

(***************************************************************************)
(* Bounds of the model.                                                    *)
(***************************************************************************)
\* Math.random() takes the values 0/RandDenom .. (RandDenom-1)/RandDenom; in a
\* session of the App with the AI, the values 0/RandDenomAi .. (RandDenomAi-1)/RandDenomAi.
RandDenom == 10
RandDenomAi == 1
\* Boards handed to getAiMove have at most MaxEmpty empty cells.
MaxEmpty == 5
\* Malformed inputs: boards of MinLen..MaxLen cells with at most MaxEmptyInvalid empty cells.
MinLen == 8
MaxLen == 10
MaxEmptyInvalid == 2
\* A click that places a mark is on one of the first ClickWidth empty cells in a
\* session of two humans, on one of the first ClickWidthAi in a session with the AI.
ClickWidth == 2
ClickWidthAi == 1
\* The timer callback runs Medium and Hard on at most MaxEmptySearch empty cells.
MaxEmptySearch == 3
\* A session of two humans keeps xWins and oWins within MaxScore and draws within
\* MaxDraws; a session with the AI keeps xWins within MaxScore, oWins within
\* MaxScoreOAi and draws within MaxDrawsAi.
MaxScore == 3
MaxDraws == 1
MaxScoreOAi == 0
MaxDrawsAi == 0

(***************************************************************************)
(* Values.                                                                 *)
(***************************************************************************)
Null == "null"
Undefined == "undefined"
Symbols == {"X", "O"}
Cells == {Null, "X", "O"}
Difficulties == {"Easy", "Medium", "Hard"}
\* the denominator of the draws in the scenario at hand
RandDenomOf == IF scenario \in {"app", "fair", "fairIdle"} THEN RandDenomAi ELSE RandDenom
Rand == 0 .. (RandDenomOf - 1)

\* null returned where a move index is expected
NoMove == -1
\* null returned by scoreTerminal
NoScore == 99
\* Infinity and -Infinity, the initial best scores of minimax
PosInf == 100
NegInf == -100

\* board[i], undefined outside the array
At(b, i) == IF i < Len(b) THEN b[i + 1] ELSE Undefined
\* v is truthy (cells are "X", "O", null or undefined)
Truthy(v) == v # Null /\ v # Undefined
\* v == null
Nullish(v) == v = Null \/ v = Undefined
\* const next = b.slice(); next[i] = v   (i inside the array)
Put(b, i, v) == [b EXCEPT ![i + 1] = v]
\* Array(9).fill(null)
emptyBoard == [k \in 1 .. 9 |-> Null]
Range(s) == {s[k] : k \in 1 .. Len(s)}

LINES == << <<0, 1, 2>>, <<3, 4, 5>>, <<6, 7, 8>>,
            <<0, 3, 6>>, <<1, 4, 7>>, <<2, 5, 8>>,
            <<0, 4, 8>>, <<2, 4, 6>> >>

\* b as the reads of getWinner see it: cells 0..8, undefined past the end of the array
Padded(b) == IF Len(b) >= 9 THEN b ELSE b \o [k \in 1 .. (9 - Len(b)) |-> Undefined]

\* the test of getWinner's loop body for the line l = [a, b, c], on the padded cells
LineHit(cells, l) ==
  LET v == cells[l[1] + 1] IN Truthy(v) /\ v = cells[l[2] + 1] /\ v = cells[l[3] + 1]

\* variant of getWinner: the loop does not return at the first hit, the last one stands
getWinnerLastHit(b) ==
  LET cells == Padded(b)
      hits == SelectSeq(LINES, LAMBDA l : LineHit(cells, l))
  IN IF Len(hits) = 0 THEN Null ELSE cells[hits[Len(hits)][1] + 1]

\* the mark of the first line of LINES that is uniform and truthy, else null
getWinner(b) ==
  LET cells == Padded(b)
      hits == SelectSeq(LINES, LAMBDA l : LineHit(cells, l))
  IN IF Len(hits) = 0 THEN Null ELSE cells[hits[1][1] + 1]

\* the indices 0, 1, 2, ... an array loop runs through
IndexSeq == [k \in 1 .. (MaxLen + 1) |-> k - 1]

\* variant of getAvailableMoves: the loop stops one cell early (i < board.length - 1)
getAvailableMovesSkipLast(b) ==
  SelectSeq(SubSeq(IndexSeq, 1, Len(b) - 1), LAMBDA i : b[i + 1] = Null)

\* the indices 0 .. length-1 whose cell is null, ascending
getAvailableMoves(b) ==
  SelectSeq(SubSeq(IndexSeq, 1, Len(b)), LAMBDA i : b[i + 1] = Null)

isDraw(b) == getWinner(b) = Null /\ Len(getAvailableMoves(b)) = 0

\* variant of getGameOutcome: isDraw forgets the winner test
getGameOutcomeFullIsDraw(b) ==
  [winner |-> getWinner(b), isDraw |-> Len(getAvailableMoves(b)) = 0]

getGameOutcome(b) ==
  LET winner == getWinner(b)
  IN [winner |-> winner,
      isDraw |-> winner = Null /\ Len(getAvailableMoves(b)) = 0]

(***************************************************************************)
(* Exhaustive search.                                                      *)
(***************************************************************************)
\* variant of scoreTerminal: the scores ignore the depth
scoreTerminalNoDepth(b, aiPlayer, humanPlayer, depth) ==
  LET winner == getWinner(b)
  IN IF winner = aiPlayer THEN 10
     ELSE IF winner = humanPlayer THEN 0 - 10
     ELSE IF isDraw(b) THEN 0
     ELSE NoScore

\* variant of scoreTerminal: the loss score has the depth with the wrong sign
scoreTerminalFastLoss(b, aiPlayer, humanPlayer, depth) ==
  LET winner == getWinner(b)
  IN IF winner = aiPlayer THEN 10 - depth
     ELSE IF winner = humanPlayer THEN 0 - depth - 10
     ELSE IF isDraw(b) THEN 0
     ELSE NoScore

scoreTerminal(b, aiPlayer, humanPlayer, depth) ==
  LET winner == getWinner(b)
  IN IF winner = aiPlayer THEN 10 - depth
     ELSE IF winner = humanPlayer THEN depth - 10
     ELSE IF isDraw(b) THEN 0
     ELSE NoScore

\* variant of better: an equal score replaces the incumbent (>= and <=)
betterOrEqual(maximizing, result, best, mv) ==
  IF maximizing
  THEN IF result.score >= best.score THEN [score |-> result.score, move |-> mv] ELSE best
  ELSE IF result.score <= best.score THEN [score |-> result.score, move |-> mv] ELSE best

\* one iteration of minimax's loop: the incumbent best after seeing result for mv
better(maximizing, result, best, mv) ==
  IF maximizing
  THEN IF result.score > best.score THEN [score |-> result.score, move |-> mv] ELSE best
  ELSE IF result.score < best.score THEN [score |-> result.score, move |-> mv] ELSE best

RECURSIVE minimax(_, _, _, _, _), minimaxLoop(_, _, _, _, _, _, _, _)

\* for (const move of moves) { ... } from the k-th move on, with incumbent best
minimaxLoop(b, moves, k, currentPlayer, aiPlayer, humanPlayer, depth, best) ==
  IF k > Len(moves) THEN best
  ELSE LET mv == moves[k]
           next == Put(b, mv, currentPlayer)
           nextPlayer == IF currentPlayer = "X" THEN "O" ELSE "X"
           result == minimax(next, nextPlayer, aiPlayer, humanPlayer, depth + 1)
       IN minimaxLoop(b, moves, k + 1, currentPlayer, aiPlayer, humanPlayer, depth,
                      better(currentPlayer = aiPlayer, result, best, mv))

minimax(b, currentPlayer, aiPlayer, humanPlayer, depth) ==
  LET terminalScore == scoreTerminal(b, aiPlayer, humanPlayer, depth)
  IN IF terminalScore # NoScore
     THEN [score |-> terminalScore, move |-> NoMove]
     ELSE minimaxLoop(b, getAvailableMoves(b), 1, currentPlayer, aiPlayer, humanPlayer, depth,
                      [score |-> IF currentPlayer = aiPlayer THEN NegInf ELSE PosInf,
                       move |-> NoMove])

RECURSIVE deepestCallTwoPerPly(_, _, _, _, _)
\* variant of deepestCall: the recursive call passes depth + 2
deepestCallTwoPerPly(b, currentPlayer, aiPlayer, humanPlayer, depth) ==
  IF scoreTerminal(b, aiPlayer, humanPlayer, depth) # NoScore THEN depth
  ELSE LET moves == getAvailableMoves(b)
           nextPlayer == IF currentPlayer = "X" THEN "O" ELSE "X"
           below == {deepestCallTwoPerPly(Put(b, moves[k], currentPlayer), nextPlayer,
                                          aiPlayer, humanPlayer, depth + 2) :
                       k \in 1 .. Len(moves)}
       IN CHOOSE d \in below \cup {depth} : \A e \in below \cup {depth} : e <= d

RECURSIVE deepestCall(_, _, _, _, _)
\* the call tree of minimax: the greatest depth argument among the calls made
\* below minimax(b, currentPlayer, aiPlayer, humanPlayer, depth), itself included
deepestCall(b, currentPlayer, aiPlayer, humanPlayer, depth) ==
  IF scoreTerminal(b, aiPlayer, humanPlayer, depth) # NoScore THEN depth
  ELSE LET moves == getAvailableMoves(b)
           nextPlayer == IF currentPlayer = "X" THEN "O" ELSE "X"
           below == {deepestCall(Put(b, moves[k], currentPlayer), nextPlayer,
                                 aiPlayer, humanPlayer, depth + 1) :
                       k \in 1 .. Len(moves)}
       IN CHOOSE d \in below \cup {depth} : \A e \in below \cup {depth} : e <= d

(***************************************************************************)
(* The random source.  An operator that draws returns the set of values it *)
(* can return over all draws.                                              *)
(***************************************************************************)
\* the truth values Math.random() < tenths/10 can take
randomBelow(tenths) == {10 * k < tenths * RandDenomOf : k \in Rand}

\* variant of getRandomElement: Math.round in place of Math.floor; an index past
\* the end reads undefined
getRandomElementRound(arr) ==
  IF Len(arr) = 0 THEN {NoMove}
  ELSE {LET idx == (2 * k * Len(arr) + RandDenomOf) \div (2 * RandDenomOf)
        IN IF idx < Len(arr) THEN arr[idx + 1] ELSE NoMove : k \in Rand}

\* arr[Math.floor(Math.random() * arr.length)], null for an empty array
getRandomElement(arr) ==
  IF Len(arr) = 0 THEN {NoMove}
  ELSE {arr[((k * Len(arr)) \div RandDenomOf) + 1] : k \in Rand}

(***************************************************************************)
(* Strategies.  Each returns the set of [move, branch] it can return.      *)
(***************************************************************************)
\* variant of getNonLosingMoves: a move that wins at once is not kept for that reason
getNonLosingMovesNoWinCheck(b, aiPlayer, humanPlayer) ==
  LET safeMove(mv) ==
        LET next == Put(b, mv, aiPlayer)
        IN ~ \E reply \in Range(getAvailableMoves(next)) :
                getWinner(Put(next, reply, humanPlayer)) = humanPlayer
  IN SelectSeq(getAvailableMoves(b), safeMove)

getNonLosingMoves(b, aiPlayer, humanPlayer) ==
  LET safeMove(mv) ==
        LET next == Put(b, mv, aiPlayer)
        IN \/ getWinner(next) = aiPlayer
           \/ ~ \E reply \in Range(getAvailableMoves(next)) :
                   getWinner(Put(next, reply, humanPlayer)) = humanPlayer
  IN SelectSeq(getAvailableMoves(b), safeMove)

biasCells == <<4, 0, 2, 6, 8>>

\* variant of getMoveEasy: the biased subset is used whenever it is not empty
getMoveEasyAlwaysBiased(b) ==
  LET available == getAvailableMoves(b)
      biasedAvailable == SelectSeq(biasCells, LAMBDA i : Nullish(At(b, i)))
  IN IF Len(available) = 0 THEN {[move |-> NoMove, branch |-> "none"]}
     ELSE IF Len(biasedAvailable) > 0
     THEN {[move |-> m, branch |-> "biased"] : m \in getRandomElement(biasedAvailable)}
     ELSE {[move |-> m, branch |-> "uniform"] : m \in getRandomElement(available)}

getMoveEasy(b) ==
  LET available == getAvailableMoves(b)
      biasedAvailable == SelectSeq(biasCells, LAMBDA i : Nullish(At(b, i)))
  IN IF Len(available) = 0 THEN {[move |-> NoMove, branch |-> "none"]}
     ELSE UNION { IF Len(biasedAvailable) > 0 /\ lt
                  THEN {[move |-> m, branch |-> "biased"] : m \in getRandomElement(biasedAvailable)}
                  ELSE {[move |-> m, branch |-> "uniform"] : m \in getRandomElement(available)}
                  : lt \in randomBelow(3) }

\* variant of getMoveHard: the first available move, without a search
getMoveHardFirstMove(b, aiPlayer, humanPlayer) ==
  IF getWinner(b) # Null \/ Len(getAvailableMoves(b)) = 0 THEN NoMove
  ELSE getAvailableMoves(b)[1]

getMoveHard(b, aiPlayer, humanPlayer) ==
  IF getWinner(b) # Null \/ Len(getAvailableMoves(b)) = 0 THEN NoMove
  ELSE minimax(b, aiPlayer, aiPlayer, humanPlayer, 0).move

getMoveMedium(b, aiPlayer, humanPlayer) ==
  LET available == getAvailableMoves(b)
      best == getMoveHard(b, aiPlayer, humanPlayer)
      safe == getNonLosingMoves(b, aiPlayer, humanPlayer)
      safeNonBest == SelectSeq(safe, LAMBDA m : m # best)
  IN IF getWinner(b) # Null \/ Len(available) = 0 THEN {[move |-> NoMove, branch |-> "none"]}
     ELSE IF best = NoMove THEN {[move |-> NoMove, branch |-> "none"]}
     ELSE UNION { IF lt THEN {[move |-> best, branch |-> "best"]}
                  ELSE IF Len(safeNonBest) > 0
                  THEN {[move |-> m, branch |-> "safeNonBest"] : m \in getRandomElement(safeNonBest)}
                  ELSE IF Len(safe) > 0
                  THEN {[move |-> m, branch |-> "safe"] : m \in getRandomElement(safe)}
                  ELSE {[move |-> m, branch |-> "any"] : m \in getRandomElement(available)}
                  : lt \in randomBelow(7) }

\* variant of getAiMove: Hard dispatches to the Easy strategy
getAiMoveHardAsEasy(b, ai, human, diff) ==
  IF getWinner(b) # Null \/ Len(getAvailableMoves(b)) = 0
  THEN {[move |-> NoMove, branch |-> "over"]}
  ELSE IF diff = "Easy" THEN getMoveEasy(b)
  ELSE IF diff = "Hard" THEN getMoveEasy(b)
  ELSE getMoveMedium(b, ai, human)

\* variant of getAiMove: the early return tests only for a full board
getAiMoveNoWinnerCheck(b, ai, human, diff) ==
  IF Len(getAvailableMoves(b)) = 0
  THEN {[move |-> NoMove, branch |-> "over"]}
  ELSE IF diff = "Easy" THEN getMoveEasy(b)
  ELSE IF diff = "Hard" THEN {[move |-> getMoveHard(b, ai, human), branch |-> "search"]}
  ELSE getMoveMedium(b, ai, human)

getAiMove(b, ai, human, diff) ==
  IF getWinner(b) # Null \/ Len(getAvailableMoves(b)) = 0
  THEN {[move |-> NoMove, branch |-> "over"]}
  ELSE IF diff = "Easy" THEN getMoveEasy(b)
  ELSE IF diff = "Hard" THEN {[move |-> getMoveHard(b, ai, human), branch |-> "search"]}
  ELSE getMoveMedium(b, ai, human)

(***************************************************************************)
(* The App component (App.js).  An event handler or the timer callback     *)
(* runs against the last committed render and commits the state it sets;   *)
(* the effects whose dependencies changed in that commit run in a step of  *)
(* their own (RunEffects), before any later event or callback: React runs  *)
(* the effects of a commit before it processes another update.             *)
(***************************************************************************)
VARIABLES
  squares,                \* useState: the board on screen
  xIsNext,                \* useState: X is to move
  mode,                   \* useState: "HUMAN_HUMAN" or "HUMAN_AI"
  humanPlayer,            \* useState: the human's symbol in HUMAN_AI
  aiThinking,             \* useState
  bestOf5Enabled,         \* useState
  series,                 \* useState: [gameNumber, xWins, oWins, draws]
  lastCountedGameKeyRef,  \* useRef: .current
  timer,                  \* the window.setTimeout request of the AI effect
  pending                 \* the effects of the last commit that have not run yet

\* The variable difficulty is also the App's useState of that name, and outcome
\* its useMemo of getGameOutcome(squares).
appVars == <<squares, xIsNext, mode, humanPlayer, aiThinking, bestOf5Enabled, series,
             lastCountedGameKeyRef, timer, pending>>
vars == <<board, aiSymbol, humanSymbol, difficulty, move, branch, outcome, turn, scenario, pc,
          squares, xIsNext, mode, humanPlayer, aiThinking, bestOf5Enabled, series,
          lastCountedGameKeyRef, timer, pending>>

Modes == {"HUMAN_HUMAN", "HUMAN_AI"}
\* { gameNumber: 1, xWins: 0, oWins: 0, draws: 0 }
newSeries == [gameNumber |-> 1, xWins |-> 0, oWins |-> 0, draws |-> 0]
\* no request is scheduled (none was made, it ran, or clearTimeout removed it)
NoTimer == [set |-> FALSE]
\* the values `series-${gameNumber}` takes
seriesKey == <<"series-1", "series-2", "series-3", "series-4", "series-5">>

\* the useState values of the committed render
state ==
  [squares |-> squares, xIsNext |-> xIsNext, mode |-> mode, humanPlayer |-> humanPlayer,
   difficulty |-> difficulty, aiThinking |-> aiThinking,
   bestOf5Enabled |-> bestOf5Enabled, series |-> series, outcome |-> outcome]

\* the render of the state t that set calls left: outcome is computed from its squares
rendered(t) == [t EXCEPT !.outcome = getGameOutcome(t.squares)]

\* values computed in the render s
startingPlayerForGameNumber(gameNumber) == IF gameNumber % 2 = 1 THEN "X" ELSE "O"
seriesWinnerFromScores(sr) ==
  IF sr.xWins >= 3 THEN "X" ELSE IF sr.oWins >= 3 THEN "O" ELSE Null
aiPlayer(s) == IF s.humanPlayer = "X" THEN "O" ELSE "X"
gameOver(s) == s.outcome.winner # Null \/ s.outcome.isDraw
currentPlayer(s) == IF s.xIsNext THEN "X" ELSE "O"
seriesWinner(s) == IF ~ s.bestOf5Enabled THEN Null ELSE seriesWinnerFromScores(s.series)
boardDisabled(s) ==
  gameOver(s) \/ (s.mode = "HUMAN_AI" /\ (s.aiThinking \/ currentPlayer(s) = aiPlayer(s)))

canAdvanceSeries(s) ==
  s.bestOf5Enabled /\ gameOver(s) /\ seriesWinner(s) = Null /\ s.series.gameNumber < 5
shouldShowStartNewSeries(s) ==
  s.bestOf5Enabled /\ (seriesWinner(s) # Null \/ s.series.gameNumber >= 5) /\ gameOver(s)

\* variant of resetBoardOnly: setAiThinking(false) is missing
resetBoardOnlyKeepThinking(s, nextStarter) ==
  [s EXCEPT !.squares = emptyBoard, !.xIsNext = (nextStarter = "X")]

\* the state the three set calls of resetBoardOnly leave
resetBoardOnly(s, nextStarter) ==
  [s EXCEPT !.squares = emptyBoard, !.xIsNext = (nextStarter = "X"), !.aiThinking = FALSE]

\* variant of handlePlay: the test of the clicked square is missing
handlePlayOverwrite(s, index) ==
  IF boardDisabled(s) THEN s
  ELSE IF s.mode = "HUMAN_AI" /\ currentPlayer(s) # s.humanPlayer THEN s
  ELSE IF gameOver(s) THEN s
  ELSE [s EXCEPT !.squares = Put(s.squares, index, currentPlayer(s)), !.xIsNext = ~ s.xIsNext]

\* variant of handlePlay: a finished game does not stop the click
handlePlayAfterEnd(s, index) ==
  IF s.mode = "HUMAN_AI" /\ (s.aiThinking \/ currentPlayer(s) = aiPlayer(s)) THEN s
  ELSE IF s.mode = "HUMAN_AI" /\ currentPlayer(s) # s.humanPlayer THEN s
  ELSE IF ~ Nullish(At(s.squares, index)) THEN s
  ELSE [s EXCEPT !.squares = Put(s.squares, index, currentPlayer(s)), !.xIsNext = ~ s.xIsNext]

handlePlay(s, index) ==
  IF boardDisabled(s) THEN s
  ELSE IF s.mode = "HUMAN_AI" /\ currentPlayer(s) # s.humanPlayer THEN s
  ELSE IF ~ Nullish(At(s.squares, index)) THEN s
  ELSE IF gameOver(s) THEN s
  ELSE [s EXCEPT !.squares = Put(s.squares, index, currentPlayer(s)), !.xIsNext = ~ s.xIsNext]

\* variant of handleNextGame: the starter is taken from the game number of
\* the render, not from the incremented one
handleNextGameStaleNumber(s) ==
  IF ~ canAdvanceSeries(s) THEN s
  ELSE resetBoardOnly([s EXCEPT !.series.gameNumber = @ + 1],
                      startingPlayerForGameNumber(s.series.gameNumber))

handleNextGame(s) ==
  IF ~ canAdvanceSeries(s) THEN s
  ELSE resetBoardOnly([s EXCEPT !.series.gameNumber = @ + 1],
                      startingPlayerForGameNumber(s.series.gameNumber + 1))

handleStartNewSeries(s) == resetBoardOnly([s EXCEPT !.series = newSeries], "X")

handleRestartGame(s) ==
  resetBoardOnly(s, IF s.bestOf5Enabled
                    THEN startingPlayerForGameNumber(s.series.gameNumber)
                    ELSE "X")

\* variant of placeAiMove: the updater returns prev, the copy is lost
placeAiMoveNoWrite(prev, mv, ai) == prev

\* the updater of setSquares in the timer callback, applied to prev
placeAiMove(prev, mv, ai) ==
  LET o == getGameOutcome(prev)
  IN IF Truthy(o.winner) \/ o.isDraw THEN prev
     ELSE IF ~ Nullish(At(prev, mv)) THEN prev
     ELSE Put(prev, mv, ai)

(***************************************************************************)
(* Effects.  An effect runs against the render s that scheduled it and     *)
(* works on c: the state its set calls queue (st), the ref, the timer, and *)
(* whether squares was set to a new array (fresh).                         *)
(***************************************************************************)
gameKey(s) == IF s.bestOf5Enabled THEN seriesKey[s.series.gameNumber] ELSE "single"

\* the updater of setSeries in the score effect
countOutcome(s, prev) ==
  IF s.outcome.winner = "X" THEN [prev EXCEPT !.xWins = @ + 1]
  ELSE IF s.outcome.winner = "O" THEN [prev EXCEPT !.oWins = @ + 1]
  ELSE IF s.outcome.isDraw THEN [prev EXCEPT !.draws = @ + 1]
  ELSE prev

scoreEffect(s, c) ==
  IF ~ gameOver(s) THEN [c EXCEPT !.ref = Null]
  ELSE IF c.ref = gameKey(s) THEN c
  ELSE [c EXCEPT !.ref = gameKey(s), !.st.series = countOutcome(s, @)]

\* variant of aiCleanup: the request is left in place
aiCleanupKeep(c) == c

\* the cleanup of the AI effect: cancelled = true; clearTimeout(t)
aiCleanup(c) == [c EXCEPT !.timer = NoTimer]

\* the AI effect with the turn test against the human's symbol
aiEffectWrongTurn(s, c) ==
  IF s.mode # "HUMAN_AI" THEN c
  ELSE IF gameOver(s) THEN c
  ELSE IF currentPlayer(s) # s.humanPlayer THEN c
  ELSE [c EXCEPT !.timer = [set |-> TRUE, render |-> s], !.st.aiThinking = TRUE]
aiEffect(s, c) ==
  IF s.mode # "HUMAN_AI" THEN c
  ELSE IF gameOver(s) THEN c
  ELSE IF currentPlayer(s) # aiPlayer(s) THEN c
  ELSE [c EXCEPT !.timer = [set |-> TRUE, render |-> s], !.st.aiThinking = TRUE]

thinkingEffect(s, c) ==
  IF s.mode # "HUMAN_AI" THEN c ELSE [c EXCEPT !.st.aiThinking = FALSE]

seriesEffect(s, c) ==
  IF ~ s.bestOf5Enabled THEN c
  ELSE [c EXCEPT !.st = resetBoardOnly([@ EXCEPT !.series = newSeries], "X"), !.fresh = TRUE]

\* the dependency arrays
scoreDeps(s) ==
  <<gameOver(s), s.outcome.winner, s.outcome.isDraw, s.bestOf5Enabled, s.series.gameNumber>>
aiDeps(s) ==
  <<s.mode, s.xIsNext, s.squares, aiPlayer(s), s.humanPlayer, s.difficulty, gameOver(s)>>
thinkingDeps(s) == <<s.mode, s.humanPlayer>>
seriesDeps(s) == <<s.bestOf5Enabled>>

\* the effects that run after render t replaces render s; squares is compared by
\* identity, so a new array counts as a change whatever it holds
effectsDue(s, t, fresh) ==
  (IF scoreDeps(s) # scoreDeps(t) THEN {"score"} ELSE {})
    \cup (IF fresh \/ aiDeps(s) # aiDeps(t) THEN {"ai"} ELSE {})
    \cup (IF thinkingDeps(s) # thinkingDeps(t) THEN {"thinking"} ELSE {})
    \cup (IF seriesDeps(s) # seriesDeps(t) THEN {"series"} ELSE {})

\* the cleanups, then the effects of due in the order of the source
runEffects(s, due, ref, tm) ==
  LET c0 == [st |-> s, ref |-> ref, timer |-> tm, fresh |-> FALSE]
      c1 == IF "ai" \in due THEN aiCleanup(c0) ELSE c0
      c2 == IF "score" \in due THEN scoreEffect(s, c1) ELSE c1
      c3 == IF "ai" \in due THEN aiEffect(s, c2) ELSE c2
      c4 == IF "thinking" \in due THEN thinkingEffect(s, c3) ELSE c3
  IN IF "series" \in due THEN seriesEffect(s, c4) ELSE c4

(***************************************************************************)
(* Callers.  scenario tells which one a behaviour is about:                *)
(*   "outcome"  getGameOutcome applied to any 9-cell board                 *)
(*   "ai"       getAiMove applied to a 9-cell board, two distinct symbols  *)
(*   "easy"     getAiMove at difficulty Easy applied to any 9-cell board   *)
(*   "invalid"  either function applied to an input the contract excludes *)
(*   "vsAny"    a game from the empty board, Hard against any opponent     *)
(*   "selfPlay" a game from the empty board, Hard against Hard             *)
(*   "opening"  the first move of a game that Hard, playing X, begins; the *)
(*              game goes on as "vsAny" or as "selfPlay"                   *)
(***************************************************************************)
Other(p) == IF p = "X" THEN "O" ELSE "X"
Empties(b) == Cardinality({k \in 1 .. Len(b) : b[k] = Null})
BoardsOfLen(n) == [1 .. n -> Cells]
NoOutcome == [winner |-> Null, isDraw |-> FALSE]
GameOver(o) == o.winner # Null \/ o.isDraw

\* the values of useState and useRef at the first render, no effect pending
AppMounted ==
  /\ squares = emptyBoard /\ xIsNext = TRUE
  /\ mode = "HUMAN_HUMAN" /\ humanPlayer = "X" /\ aiThinking = FALSE
  /\ bestOf5Enabled = FALSE /\ series = newSeries
  /\ lastCountedGameKeyRef = Null /\ timer = NoTimer /\ pending = {}

InitOutcome ==
  /\ scenario = "outcome"
  /\ board \in BoardsOfLen(9)
  /\ aiSymbol = "X" /\ humanSymbol = "O" /\ difficulty = "Hard"
  /\ move = NoMove /\ branch = "none" /\ outcome = NoOutcome
  /\ turn = "X" /\ pc = "idle"
  /\ AppMounted

InitAi ==
  /\ scenario = "ai"
  /\ board \in {b \in BoardsOfLen(9) : Empties(b) <= MaxEmpty}
  /\ aiSymbol \in Symbols /\ humanSymbol = Other(aiSymbol)
  /\ difficulty \in Difficulties
  /\ move = NoMove /\ branch = "none" /\ outcome = NoOutcome
  /\ turn = aiSymbol /\ pc = "idle"
  /\ AppMounted

InitEasy ==
  /\ scenario = "easy"
  /\ board \in BoardsOfLen(9)
  /\ aiSymbol \in Symbols /\ humanSymbol = Other(aiSymbol)
  /\ difficulty = "Easy"
  /\ move = NoMove /\ branch = "none" /\ outcome = NoOutcome
  /\ turn = aiSymbol /\ pc = "idle"
  /\ AppMounted

InitInvalid ==
  /\ scenario = "invalid"
  /\ board \in UNION {{b \in BoardsOfLen(n) : Empties(b) <= MaxEmptyInvalid} : n \in MinLen .. MaxLen}
  /\ aiSymbol \in Symbols /\ humanSymbol \in Symbols
  /\ Len(board) # 9 \/ aiSymbol = humanSymbol
  /\ difficulty \in Difficulties
  /\ move = NoMove /\ branch = "none" /\ outcome = NoOutcome
  /\ turn = aiSymbol /\ pc = "idle"
  /\ AppMounted

InitGame ==
  /\ \/ scenario = "opening" /\ aiSymbol = "X"
     \/ scenario = "vsAny" /\ aiSymbol = "O"
  /\ board = emptyBoard
  /\ humanSymbol = Other(aiSymbol)
  /\ difficulty = "Hard"
  /\ move = NoMove /\ branch = "none" /\ outcome = getGameOutcome(board)
  /\ turn = "X" /\ pc = "play"
  /\ AppMounted

\* const outcome = getGameOutcome(board)
CallGetGameOutcome ==
  /\ scenario \in {"outcome", "invalid"}
  /\ pc = "idle"
  /\ outcome' = getGameOutcome(board)
  /\ pc' = "gotOutcome"
  /\ UNCHANGED <<board, aiSymbol, humanSymbol, difficulty, move, branch, turn, scenario>>
  /\ UNCHANGED appVars

\* const move = getAiMove(board, aiSymbol, humanSymbol, difficulty)
CallGetAiMove ==
  /\ scenario \in {"ai", "easy", "invalid"}
  /\ pc = "idle"
  /\ \E r \in getAiMove(board, aiSymbol, humanSymbol, difficulty) :
       /\ move' = r.move
       /\ branch' = r.branch
  /\ pc' = "gotMove"
  /\ UNCHANGED <<board, aiSymbol, humanSymbol, difficulty, outcome, turn, scenario>>
  /\ UNCHANGED appVars

\* X, a Hard side, makes the first move of the game
HardOpens ==
  /\ scenario = "opening"
  /\ pc = "play"
  /\ ~ GameOver(outcome)
  /\ turn = aiSymbol
  /\ \E r \in getAiMove(board, aiSymbol, humanSymbol, difficulty) :
       /\ r.move # NoMove
       /\ move' = r.move
       /\ branch' = r.branch
       /\ board' = Put(board, r.move, aiSymbol)
  /\ outcome' = getGameOutcome(board')
  /\ turn' = Other(turn)
  /\ scenario' \in {"vsAny", "selfPlay"}
  /\ UNCHANGED <<aiSymbol, humanSymbol, difficulty, pc>>
  /\ UNCHANGED appVars

\* the Hard side moves: its cell is the one getAiMove returns
AiPlays ==
  /\ scenario = "vsAny"
  /\ pc = "play"
  /\ ~ GameOver(outcome)
  /\ turn = aiSymbol
  /\ \E r \in getAiMove(board, aiSymbol, humanSymbol, difficulty) :
       /\ r.move # NoMove
       /\ move' = r.move
       /\ branch' = r.branch
       /\ board' = Put(board, r.move, aiSymbol)
  /\ outcome' = getGameOutcome(board')
  /\ turn' = Other(turn)
  /\ UNCHANGED <<aiSymbol, humanSymbol, difficulty, scenario, pc>>
  /\ UNCHANGED appVars

\* the other side moves: any empty cell
OpponentPlays ==
  /\ scenario = "vsAny"
  /\ pc = "play"
  /\ ~ GameOver(outcome)
  /\ turn = humanSymbol
  /\ \E i \in Range(getAvailableMoves(board)) :
       /\ move' = i
       /\ board' = Put(board, i, humanSymbol)
  /\ branch' = "opponent"
  /\ outcome' = getGameOutcome(board')
  /\ turn' = Other(turn)
  /\ UNCHANGED <<aiSymbol, humanSymbol, difficulty, scenario, pc>>
  /\ UNCHANGED appVars

\* Hard against Hard: the side to move asks getAiMove with itself as the AI
SelfPlays ==
  /\ scenario = "selfPlay"
  /\ pc = "play"
  /\ ~ GameOver(outcome)
  /\ \E r \in getAiMove(board, turn, Other(turn), difficulty) :
       /\ r.move # NoMove
       /\ move' = r.move
       /\ branch' = r.branch
       /\ board' = Put(board, r.move, turn)
  /\ outcome' = getGameOutcome(board')
  /\ turn' = Other(turn)
  /\ UNCHANGED <<aiSymbol, humanSymbol, difficulty, scenario, pc>>
  /\ UNCHANGED appVars

(***************************************************************************)
(* The App as a caller: scenarios "app", "series" and "fair".  In scenario *)
(* "fairIdle" the user has stopped acting and only effects and the timer   *)
(* callback run.                                                           *)
(***************************************************************************)
InitApp ==
  /\ scenario = "app"
  /\ AppMounted
  /\ difficulty = "Medium"
  /\ board = emptyBoard /\ aiSymbol = "O" /\ humanSymbol = "X"
  /\ move = NoMove /\ branch = "none" /\ outcome = NoOutcome
  /\ turn = "X" /\ pc = "idle"

InitFair ==
  /\ scenario = "fair"
  /\ AppMounted
  /\ difficulty = "Medium"
  /\ board = emptyBoard /\ aiSymbol = "O" /\ humanSymbol = "X"
  /\ move = NoMove /\ branch = "none" /\ outcome = NoOutcome
  /\ turn = "X" /\ pc = "idle"

InitSeries ==
  /\ scenario = "series"
  /\ AppMounted
  /\ difficulty = "Medium"
  /\ board = emptyBoard /\ aiSymbol = "O" /\ humanSymbol = "X"
  /\ move = NoMove /\ branch = "none" /\ outcome = NoOutcome
  /\ turn = "X" /\ pc = "idle"

\* the variables of the engine's callers that the App does not use
Engine == <<board, aiSymbol, humanSymbol, move, branch, turn, pc>>

\* the render of t replaces the committed one; its effects become pending
Commit(t, fresh) ==
  LET r == rendered(t)
  IN /\ squares' = r.squares /\ xIsNext' = r.xIsNext
     /\ mode' = r.mode /\ humanPlayer' = r.humanPlayer /\ difficulty' = r.difficulty
     /\ aiThinking' = r.aiThinking /\ bestOf5Enabled' = r.bestOf5Enabled
     /\ series' = r.series /\ outcome' = r.outcome
     /\ pending' = effectsDue(state, r, fresh)

\* a user event: the effects of the last commit have run; ref and timer are
\* touched by effects and by the callback only
UserEvent ==
  /\ scenario \in {"app", "fair", "series"}
  /\ pending = {}
  /\ UNCHANGED <<lastCountedGameKeyRef, timer, scenario>>
  /\ UNCHANGED Engine

\* the clicks of the bound: a click that places a mark is on one of the first
\* ClickWidth (ClickWidthAi) empty cells
ClickInBound(s, index) ==
  handlePlay(s, index) # s =>
    LET available == getAvailableMoves(s.squares)
        width == IF scenario = "series" THEN ClickWidth ELSE ClickWidthAi
    IN \E k \in 1 .. width : k <= Len(available) /\ index = available[k]

\* onClick of a Square
ClickSquare ==
  /\ UserEvent
  /\ \E index \in 0 .. 8 :
       /\ ClickInBound(state, index)
       /\ Commit(handlePlay(state, index), handlePlay(state, index) # state)

\* the selections of the bound: in the sessions of SpecAppFair the user selects
\* Human vs AI and Easy
ModeChoices == IF scenario = "fair" THEN {"HUMAN_AI"} ELSE Modes
DifficultyChoices == IF scenario = "fair" THEN {"Easy"} ELSE Difficulties

\* onChange of the mode select
SetMode ==
  /\ UserEvent
  /\ scenario \in {"app", "fair"}
  /\ \E m \in ModeChoices \ {mode} : Commit([state EXCEPT !.mode = m], FALSE)

\* onChange of the symbol select, disabled while aiThinking
SetHumanPlayer ==
  /\ UserEvent
  /\ scenario \in {"app", "fair"}
  /\ ~ aiThinking
  /\ \E p \in Symbols \ {humanPlayer} : Commit([state EXCEPT !.humanPlayer = p], FALSE)

\* onChange of the difficulty select, disabled outside HUMAN_AI and while aiThinking
SetDifficulty ==
  /\ UserEvent
  /\ scenario \in {"app", "fair"}
  /\ mode = "HUMAN_AI" /\ ~ aiThinking
  /\ \E d \in DifficultyChoices \ {difficulty} : Commit([state EXCEPT !.difficulty = d], FALSE)

\* onChange of the Best-of-5 checkbox
ToggleBestOf5 ==
  /\ UserEvent
  /\ Commit([state EXCEPT !.bestOf5Enabled = ~ bestOf5Enabled], FALSE)

\* onClick of Restart Game
ClickRestartGame ==
  /\ UserEvent
  /\ Commit(handleRestartGame(state), TRUE)

\* onClick of Next Game, rendered when bestOf5Enabled && canAdvanceSeries
ClickNextGame ==
  /\ UserEvent
  /\ bestOf5Enabled /\ canAdvanceSeries(state)
  /\ Commit(handleNextGame(state), handleNextGame(state) # state)

\* onClick of Start New Series, rendered when bestOf5Enabled && shouldShowStartNewSeries
ClickStartNewSeries ==
  /\ UserEvent
  /\ bestOf5Enabled /\ shouldShowStartNewSeries(state)
  /\ Commit(handleStartNewSeries(state), TRUE)

\* the counters of the bound
ScoreInBound(sr) ==
  IF scenario = "series"
  THEN sr.xWins <= MaxScore /\ sr.oWins <= MaxScore /\ sr.draws <= MaxDraws
  ELSE sr.xWins <= MaxScore /\ sr.oWins <= MaxScoreOAi /\ sr.draws <= MaxDrawsAi
\* the searches of the bound: Medium and Hard on at most MaxEmptySearch empty cells
SearchInBound(s) == s.difficulty = "Easy" \/ Empties(s.squares) <= MaxEmptySearch

\* the effects of the last commit run and their set calls are committed
RunEffects ==
  /\ scenario \in {"app", "fair", "fairIdle", "series"}
  /\ pending # {}
  /\ LET c == runEffects(state, pending, lastCountedGameKeyRef, timer)
     IN /\ ScoreInBound(c.st.series)
        /\ Commit(c.st, c.fresh)
        /\ lastCountedGameKeyRef' = c.ref
        /\ timer' = c.timer
  /\ UNCHANGED scenario
  /\ UNCHANGED Engine

\* the callback of window.setTimeout runs: the request was not cancelled
AiTimerFires ==
  /\ scenario \in {"app", "fair", "fairIdle"}
  /\ pending = {}
  /\ timer.set
  /\ SearchInBound(timer.render)
  /\ LET r == timer.render
     IN \E a \in getAiMove(r.squares, aiPlayer(r), r.humanPlayer, r.difficulty) :
          IF a.move = NoMove
          THEN Commit([state EXCEPT !.aiThinking = FALSE], FALSE)
          ELSE LET next == placeAiMove(squares, a.move, aiPlayer(r))
               IN Commit([state EXCEPT !.squares = next, !.xIsNext = ~ xIsNext,
                                       !.aiThinking = FALSE],
                         next # squares)
  /\ timer' = NoTimer
  /\ UNCHANGED <<lastCountedGameKeyRef, scenario>>
  /\ UNCHANGED Engine

\* the user stops acting once the last event has been processed
UserLeaves ==
  /\ scenario = "fair"
  /\ pending = {}
  /\ scenario' = "fairIdle"
  /\ UNCHANGED <<difficulty, outcome>>
  /\ UNCHANGED Engine
  /\ UNCHANGED appVars

NextOutcome == CallGetGameOutcome
NextAi == CallGetAiMove
NextEasy == CallGetAiMove
NextInvalid == CallGetGameOutcome \/ CallGetAiMove
NextGame == HardOpens \/ AiPlays \/ OpponentPlays \/ SelfPlays

SpecOutcome == InitOutcome /\ [][NextOutcome]_vars
SpecAi == InitAi /\ [][NextAi]_vars
SpecEasy == InitEasy /\ [][NextEasy]_vars
SpecInvalid == InitInvalid /\ [][NextInvalid]_vars
SpecGame == InitGame /\ [][NextGame]_vars

NextUser ==
  \/ ClickSquare \/ SetMode \/ SetHumanPlayer \/ SetDifficulty \/ ToggleBestOf5
  \/ ClickRestartGame \/ ClickNextGame \/ ClickStartNewSeries
NextApp == NextUser \/ RunEffects \/ AiTimerFires
SpecApp == InitApp /\ [][NextApp]_vars
NextSeries ==
  \/ ClickSquare \/ ToggleBestOf5 \/ ClickRestartGame \/ ClickNextGame \/ ClickStartNewSeries
  \/ RunEffects
SpecSeries == InitSeries /\ [][NextSeries]_vars
\* the effects of a commit run, and a timer that stays scheduled expires
SpecAppFair ==
  /\ InitFair
  /\ [][NextApp \/ UserLeaves]_vars
  /\ WF_vars(RunEffects)
  /\ WF_vars(AiTimerFires)

Init ==
  \/ InitOutcome \/ InitAi \/ InitEasy \/ InitInvalid \/ InitGame
  \/ InitApp \/ InitSeries \/ InitFair
Next ==
  \/ CallGetGameOutcome \/ CallGetAiMove \/ HardOpens \/ AiPlays \/ OpponentPlays \/ SelfPlays
  \/ NextApp \/ UserLeaves
Spec == Init /\ [][Next]_vars

(***************************************************************************)
(* Properties.                                                             *)
(***************************************************************************)
\* lines and empty cells stated on the cells themselves, not through getWinner
LineCells(k) == {LINES[k][1], LINES[k][2], LINES[k][3]}
\* p holds all three cells of some line of b
Owns(b, p) == \E k \in 1 .. 8 : \A i \in LineCells(k) : b[i + 1] = p
\* some line of b is uniform in a mark
HasLine(b) == \E p \in Symbols : Owns(b, p)
\* the empty cells of a 9-cell board
EmptyCells(b) == {i \in 0 .. 8 : b[i + 1] = Null}
\* cell i is empty and p holds the two other cells of a line through i
CompletesLine(b, i, p) ==
  /\ b[i + 1] = Null
  /\ \E k \in 1 .. 8 : i \in LineCells(k) /\ \A j \in LineCells(k) \ {i} : b[j + 1] = p

\* C1: in a game from the empty board in which one side's moves are all chosen
\* by Hard getAiMove and the other side plays any legal move, moving first or
\* second, no reachable board has the other side as winner.
C1_HardNeverLoses ==
  scenario \in {"opening", "vsAny"} => outcome.winner # humanSymbol /\ ~ Owns(board, humanSymbol)

\* a game played to a full board with the AI moving second: a draw
C1_Witness ==
  /\ scenario = "vsAny" /\ aiSymbol = "O"
  /\ outcome.isDraw /\ Empties(board) = 0

\* C2: Hard against Hard from the empty board finishes with no winner and a draw.
C2_SelfPlayDraw ==
  (scenario = "selfPlay" /\ (GameOver(outcome) \/ HasLine(board) \/ Empties(board) = 0))
    => (outcome.winner = Null /\ outcome.isDraw /\ ~ HasLine(board))

\* the self-play game at its end: nine marks, drawn
C2_Witness ==
  scenario = "selfPlay" /\ Empties(board) = 0 /\ outcome.isDraw

\* the board [X, X, _, O, O, _, _, _, _]
ThreatBoard == <<"X", "X", Null, "O", "O", Null, Null, Null, Null>>

\* C3: on a board with no winner where some empty cell completes a line of the
\* AI's symbol, Hard getAiMove returns a cell that wins at once, also when the
\* opponent threatens to win; on [X,X,_,O,O,_,_,_,_] with ai = X it returns 2.
C3_HardTakesWin ==
  (pc = "gotMove" /\ difficulty = "Hard") =>
    /\ (~ HasLine(board) /\ \E i \in 0 .. 8 : CompletesLine(board, i, aiSymbol))
         => (move \in 0 .. 8 /\ CompletesLine(board, move, aiSymbol))
    /\ (board = ThreatBoard /\ aiSymbol = "X") => move = 2

\* Hard has answered on the threat board: both sides threaten, the AI wins at 2
C3_Witness ==
  /\ pc = "gotMove" /\ difficulty = "Hard"
  /\ board = ThreatBoard /\ aiSymbol = "X"
  /\ CompletesLine(board, 5, humanSymbol)
  /\ move = 2

\* C4: on a 9-cell board with a completed line getGameOutcome returns a winner
\* that owns a completed line and isDraw = false, with or without empty cells;
\* on every board winner and isDraw are never both truthy.
C4_WinnerNotDraw ==
  pc = "gotOutcome" =>
    /\ HasLine(board) =>
         (outcome.winner \in Symbols /\ Owns(board, outcome.winner) /\ ~ outcome.isDraw)
    /\ ~ (outcome.winner # Null /\ outcome.isDraw)

\* a full board with a completed line, its outcome returned
C4_Witness ==
  pc = "gotOutcome" /\ Empties(board) = 0 /\ HasLine(board) /\ outcome.winner = "O"

\* C5: on a 9-cell board with no uniform line getGameOutcome returns winner =
\* none, and isDraw is true exactly when every cell is non-empty.
C5_NoLineOutcome ==
  (pc = "gotOutcome" /\ ~ HasLine(board)) =>
    (outcome.winner = Null /\ (outcome.isDraw <=> Empties(board) = 0))

\* a board with no line and a single empty cell, the last one: in progress
C5_Witness ==
  /\ pc = "gotOutcome" /\ ~ HasLine(board)
  /\ EmptyCells(board) = {8}
  /\ outcome = [winner |-> Null, isDraw |-> FALSE]

\* C6: for every difficulty getAiMove returns none on a board where
\* getGameOutcome reports a winner or where no empty cell remains, through the
\* early return that precedes every search and every random draw.
C6_NoneWhenOver ==
  (pc = "gotMove" /\ (getGameOutcome(board).winner # Null \/ EmptyCells(board) = {}))
    => (move = NoMove /\ branch = "over")

\* Easy was asked on a board that has a winner and empty cells left
C6_Witness ==
  /\ pc = "gotMove" /\ difficulty = "Easy"
  /\ HasLine(board) /\ EmptyCells(board) # {}
  /\ move = NoMove

\* C7: for every difficulty, on a 9-cell board with no winner and an empty cell
\* (the two symbols distinct) getAiMove returns the index of an empty cell.
C7_ReturnsEmptyCell ==
  (pc = "gotMove" /\ ~ HasLine(board) /\ EmptyCells(board) # {})
    => (move # NoMove /\ move \in EmptyCells(board))

\* Medium left its best move for another non-losing one
C7_Witness ==
  /\ pc = "gotMove" /\ difficulty = "Medium" /\ aiSymbol # humanSymbol
  /\ ~ HasLine(board) /\ branch = "safeNonBest"
  /\ move \in EmptyCells(board)

\* C8: a call of getAiMove with aiSymbol = humanSymbol is rejected: it never
\* returns a value.
C8_RejectsSameSymbol ==
  aiSymbol = humanSymbol => pc # "gotMove"

\* C9: getGameOutcome and getAiMove reject a board whose length is not 9: they
\* never return a value for it.
C9_RejectsBadLength ==
  Len(board) # 9 => pc \notin {"gotOutcome", "gotMove"}

\* C10: on a board with no winner and an empty cell, the cells Easy getAiMove
\* can return are exactly the empty cells; the biased branch returns only an
\* empty cell of {0,2,4,6,8}, hence is not taken when none of them is empty.
C10_EasyCoversEmptyCells ==
  (difficulty = "Easy" /\ ~ HasLine(board) /\ EmptyCells(board) # {}) =>
    LET outs == getAiMove(board, aiSymbol, humanSymbol, difficulty)
    IN /\ {r.move : r \in outs} = EmptyCells(board)
       /\ \A r \in outs : r.branch = "biased" => r.move \in EmptyCells(board) \cap {0, 2, 4, 6, 8}
       /\ EmptyCells(board) \cap {0, 2, 4, 6, 8} = {} => \A r \in outs : r.branch = "uniform"
       /\ pc = "gotMove" => [move |-> move, branch |-> branch] \in outs

\* Easy returned an edge midpoint on the empty board
C10_Witness ==
  /\ pc = "gotMove" /\ difficulty = "Easy"
  /\ board = emptyBoard
  /\ move = 1 /\ branch = "uniform"


\* the moves the claim calls non-losing: m wins at once for p, or no single reply
\* of the opponent q after m completes a line of q
NonLosing(b, p, q) ==
  {m \in EmptyCells(b) :
     LET next == Put(b, m, p)
     IN \/ Owns(next, p)
        \/ ~ \E r \in EmptyCells(next) : Owns(Put(next, r, q), q)}

\* the set D of the claim, for the Hard move h
MediumAlternatives(b, p, q, h) ==
  IF NonLosing(b, p, q) \ {h} # {} THEN NonLosing(b, p, q) \ {h}
  ELSE IF NonLosing(b, p, q) # {} THEN NonLosing(b, p, q)
  ELSE EmptyCells(b)

\* C11: on a board with no winner and an empty cell, the moves Medium getAiMove
\* can return are the Hard move h together with D: the non-losing moves other
\* than h if there is one, else the non-losing moves if there is one, else all
\* empty cells.
C11_MediumMoveSet ==
  (difficulty = "Medium" /\ scenario = "ai" /\ ~ HasLine(board) /\ EmptyCells(board) # {}) =>
    /\ pc = "idle" =>
         LET h == getMoveHard(board, aiSymbol, humanSymbol)
         IN {r.move : r \in getAiMove(board, aiSymbol, humanSymbol, difficulty)}
              = {h} \cup MediumAlternatives(board, aiSymbol, humanSymbol, h)
    /\ pc = "gotMove" =>
         /\ move \in EmptyCells(board)
         /\ branch \in {"best", "safeNonBest", "safe", "any"}
         /\ branch = "safeNonBest" => move \in NonLosing(board, aiSymbol, humanSymbol)
         /\ branch = "safe" => NonLosing(board, aiSymbol, humanSymbol) = {move}
         /\ branch = "any" => NonLosing(board, aiSymbol, humanSymbol) = {}

\* Medium answered on a board where every move loses: it drew among all empty cells
C11_Witness ==
  /\ pc = "gotMove" /\ difficulty = "Medium" /\ scenario = "ai"
  /\ ~ HasLine(board)
  /\ NonLosing(board, aiSymbol, humanSymbol) = {}
  /\ branch = "any"
  /\ move # getMoveHard(board, aiSymbol, humanSymbol)



Tally(sr) == <<sr.xWins, sr.oWins, sr.draws>>
\* the tally after one more game with outcome o
TallyPlus(sr, o) ==
  IF o.winner = "X" THEN <<sr.xWins + 1, sr.oWins, sr.draws>>
  ELSE IF o.winner = "O" THEN <<sr.xWins, sr.oWins + 1, sr.draws>>
  ELSE <<sr.xWins, sr.oWins, sr.draws + 1>>

\* C15: a finished game is counted once: when the board reaches a win or a draw
\* exactly one counter goes up by one (xWins, oWins or draws, by the outcome),
\* and while that finished board stays on screen no counter goes up again,
\* whatever else the user changes (mode, symbol, difficulty, Best-of-5).
C15_CountedOnce ==
  [][(GameOver(outcome) /\ squares' = squares) =>
       IF lastCountedGameKeyRef = Null
       THEN Tally(series') \in {Tally(series), TallyPlus(series, outcome)}
       ELSE /\ series'.xWins <= series.xWins
            /\ series'.oWins <= series.oWins
            /\ series'.draws <= series.draws]_vars


\* C14: in Best-of-5 the series winner is the first player whose win count
\* reaches 3: once a player is the series winner no other player becomes it
\* (the series can only be reset); and while a series winner exists Next Game is
\* disabled (handleNextGame changes nothing) and the game number stays until the
\* series is reset to game 1 with all counters 0.
C14_SeriesWinner ==
  /\ [](seriesWinner(state) # Null => handleNextGame(state) = state)
  /\ [][seriesWinner(state) # Null =>
          /\ seriesWinner(state)' \in {seriesWinner(state), Null}
          /\ series'.gameNumber = series.gameNumber \/ series' = newSeries]_vars


\* it is the AI's move in render s
AiDue(s) == s.mode = "HUMAN_AI" /\ ~ gameOver(s) /\ currentPlayer(s) = aiPlayer(s)
\* this step adds one mark of the AI's symbol to an empty cell and nothing else
AiMarkAdded == \E m \in EmptyCells(squares) : squares' = Put(squares, m, aiPlayer(state))

\* C16: in Human vs AI, when the game is not over and it is the AI's move (also
\* on the empty board after Next Game, Start New Series or Restart Game with the
\* AI as starter), and the user does nothing more, the AI eventually moves; and
\* without user action the board changes, and the AI's turn ends, only by the AI
\* placing exactly one mark of its symbol.
C16_AiEventuallyMoves ==
  /\ (scenario = "fairIdle" /\ AiDue(state) /\ SearchInBound(state))
       ~> (scenario = "fairIdle" /\ ~ AiDue(state))
  /\ [][(scenario = "fairIdle" /\ (squares' # squares \/ (AiDue(state) /\ ~ AiDue(state)'))) =>
          (AiDue(state) /\ AiMarkAdded /\ ~ AiDue(state)')]_vars

\* the user has left and the AI, as X and starter of a game after the first,
\* has placed its opening mark on the empty board
C16_Witness ==
  /\ scenario = "fairIdle" /\ mode = "HUMAN_AI" /\ humanPlayer = "O"
  /\ Empties(squares) = 8 /\ \E i \in 1 .. 9 : squares[i] = "X"
  /\ ~ xIsNext /\ ~ aiThinking /\ ~ timer.set
  /\ series.xWins = 1

\* the request a scheduled AI callback was computed for: the values of the AI
\* effect's dependencies in render s
Request(s) == <<s.squares, s.xIsNext, s.mode, s.humanPlayer, s.difficulty>>
\* the scheduled callback, if it ran now, would apply its move to the very
\* board, turn and settings it was scheduled for
RequestCurrent == Request(timer.render) = Request(state)

MinOf(S) == CHOOSE x \in S : \A y \in S : x <= y
MaxOf(S) == CHOOSE x \in S : \A y \in S : x >= y

\* the pairs <<cell, value>>: the score of the search for the position after p
\* takes the empty cell, the opponent q to move, one ply below the root
CellValues(b, p, q) == {<<m, minimax(Put(b, m, p), q, p, q, 1).score>> : m \in EmptyCells(b)}

\* C18: Hard getAiMove returns the lowest-index empty cell among the cells whose
\* minimax value is maximal: a later cell with an equal or worse value never
\* replaces the incumbent.
C18_HardLowestBest ==
  (pc = "gotMove" /\ difficulty = "Hard" /\ scenario = "ai"
     /\ ~ HasLine(board) /\ EmptyCells(board) # {}) =>
    LET values == CellValues(board, aiSymbol, humanSymbol)
        top == MaxOf({v[2] : v \in values})
    IN move = MinOf({v[1] : v \in {w \in values : w[2] = top}})

\* Hard passed over a lower cell of worse value and took the first of several best cells
C18_Witness ==
  /\ pc = "gotMove" /\ difficulty = "Hard" /\ scenario = "ai"
  /\ ~ HasLine(board) /\ EmptyCells(board) # {}
  /\ LET values == CellValues(board, aiSymbol, humanSymbol)
         top == MaxOf({v[2] : v \in values})
     IN /\ \E v \in values : v[1] < move /\ v[2] < top
        /\ \E v \in values : v[1] > move /\ v[2] = top
        /\ <<move, top>> \in values

\* the number of plies within which w, against l, completes a line of w whatever
\* l plays, from board b with toMove to move; NoScore when l can prevent it
RECURSIVE PliesToWin(_, _, _, _)
PliesToWin(b, w, l, toMove) ==
  IF Owns(b, w) THEN 0
  ELSE IF Owns(b, l) \/ EmptyCells(b) = {} THEN NoScore
  ELSE LET kids == {PliesToWin(Put(b, m, toMove), w, l, Other(toMove)) : m \in EmptyCells(b)}
       IN IF toMove = w
          THEN IF kids = {NoScore} THEN NoScore ELSE 1 + MinOf(kids)
          ELSE IF NoScore \in kids THEN NoScore ELSE 1 + MaxOf(kids)

\* C19: a terminal node scores 10 - depth for an AI win, depth - 10 for an
\* opponent win and 0 for a draw; the search maximises on the AI's turn and
\* minimises on the opponent's; so when the AI can force a win Hard plays a move
\* that forces it in the fewest plies, and when every move loses against best
\* play Hard plays a move that postpones the loss for the most plies.
C19_DepthScores ==
  scenario = "ai" =>
    /\ pc = "idle" =>
         \A d \in 0 .. 9 :
           LET score == scoreTerminal(board, aiSymbol, humanSymbol, d)
           IN /\ (Owns(board, aiSymbol) /\ ~ Owns(board, humanSymbol)) => score = 10 - d
              /\ (Owns(board, humanSymbol) /\ ~ Owns(board, aiSymbol)) => score = d - 10
              /\ (~ HasLine(board) /\ EmptyCells(board) = {}) => score = 0
              /\ (~ HasLine(board) /\ EmptyCells(board) # {}) => score = NoScore
    /\ (pc = "gotMove" /\ difficulty = "Hard" /\ ~ HasLine(board) /\ EmptyCells(board) # {}) =>
         LET after == Put(board, move, aiSymbol)
             win == PliesToWin(board, aiSymbol, humanSymbol, aiSymbol)
             losses == {<<m, PliesToWin(Put(board, m, aiSymbol), humanSymbol, aiSymbol, humanSymbol)>>
                          : m \in EmptyCells(board)}
         IN /\ minimax(board, aiSymbol, aiSymbol, humanSymbol, 0).score
                 = MaxOf({v[2] : v \in CellValues(board, aiSymbol, humanSymbol)})
            /\ minimax(board, humanSymbol, aiSymbol, humanSymbol, 0).score
                 = MinOf({minimax(Put(board, m, humanSymbol), aiSymbol, aiSymbol, humanSymbol, 1).score
                            : m \in EmptyCells(board)})
            /\ win # NoScore =>
                 PliesToWin(after, aiSymbol, humanSymbol, humanSymbol) = win - 1
            /\ (\A v \in losses : v[2] # NoScore) =>
                 <<move, MaxOf({v[2] : v \in losses})>> \in losses

\* Hard, lost whatever it plays, passed over a move that loses in one ply for one
\* that loses in three
C19_Witness ==
  /\ pc = "gotMove" /\ difficulty = "Hard" /\ scenario = "ai"
  /\ ~ HasLine(board) /\ EmptyCells(board) # {}
  /\ \A m \in EmptyCells(board) :
       PliesToWin(Put(board, m, aiSymbol), humanSymbol, aiSymbol, humanSymbol) # NoScore
  /\ \E m \in EmptyCells(board) :
       PliesToWin(Put(board, m, aiSymbol), humanSymbol, aiSymbol, humanSymbol) = 1
  /\ PliesToWin(Put(board, move, aiSymbol), humanSymbol, aiSymbol, humanSymbol) = 3

\* the lines in the order the claim lists them: rows, columns, diagonals
EnumerationOrder == << {0, 1, 2}, {3, 4, 5}, {6, 7, 8},
                       {0, 3, 6}, {1, 4, 7}, {2, 5, 8},
                       {0, 4, 8}, {2, 4, 6} >>
\* the lines of b held by one mark, as positions of EnumerationOrder
CompletedLines(b) ==
  {k \in 1 .. 8 : \E p \in Symbols : \A i \in EnumerationOrder[k] : b[i + 1] = p}

\* C20: on a board with two completed lines held by different marks,
\* getGameOutcome reports the mark of the one that comes first in the order
\* rows 0-1-2, 3-4-5, 6-7-8, columns 0-3-6, 1-4-7, 2-5-8, diagonals 0-4-8, 2-4-6.
C20_FirstLineWins ==
  (pc = "gotOutcome" /\ scenario = "outcome" /\ Owns(board, "X") /\ Owns(board, "O")) =>
    LET first == MinOf(CompletedLines(board))
    IN /\ outcome.winner = board[MinOf(EnumerationOrder[first]) + 1]
       /\ ~ outcome.isDraw

\* O holds the top row and X the bottom row: O is reported
C20_Witness ==
  /\ pc = "gotOutcome" /\ scenario = "outcome"
  /\ CompletedLines(board) = {1, 3}
  /\ board[1] = "O" /\ board[7] = "X"
  /\ outcome.winner = "O"

\* the click on square index may place a mark in render s: the game is not
\* over, the square is empty and, in Human vs AI, it is the human's move and the
\* AI is not thinking
ClickAllowed(s, index) ==
  /\ s.outcome.winner = Null /\ ~ s.outcome.isDraw
  /\ s.squares[index + 1] = Null
  /\ s.mode = "HUMAN_AI" => ((s.xIsNext <=> s.humanPlayer = "X") /\ ~ s.aiThinking)

\* C21: a click on a square places the mark of the player to move and passes
\* the turn when the game is not over, the square is empty and (in Human vs AI)
\* it is the human's move and the AI is not thinking; every other click leaves
\* board and turn as they are.
C21_ClickGuards ==
  (scenario = "app" /\ pending = {}) =>
    \A index \in 0 .. 8 :
      LET t == handlePlay(state, index)
      IN IF ClickAllowed(state, index)
         THEN /\ t.squares = [squares EXCEPT ![index + 1] = IF xIsNext THEN "X" ELSE "O"]
              /\ t.xIsNext = ~ xIsNext
         ELSE t.squares = squares /\ t.xIsNext = xIsNext

\* a game against the AI is running, the AI is thinking, and a click on an
\* empty square is refused; a click on it in the same position of a game of two
\* humans would place a mark
C21_Witness ==
  /\ scenario = "app" /\ pending = {} /\ mode = "HUMAN_AI" /\ aiThinking
  /\ Empties(squares) \in 1 .. 8
  /\ \E index \in 0 .. 8 :
       /\ squares[index + 1] = Null
       /\ handlePlay(state, index) = state
       /\ handlePlay([state EXCEPT !.mode = "HUMAN_HUMAN"], index) # state

\* the player who starts game n of a series: X the odd games, O the even ones
StarterOf(n) == IF n \in {1, 3, 5} THEN "X" ELSE "O"

\* C22: in Best-of-5 the starting player alternates with the game number: on
\* the empty board, once the effects of the last commit have run, the player to
\* move is X in an odd game and O in an even one, and Restart Game, Next Game
\* and Start New Series hand the empty board to the starter of the game they
\* leave as current (game 1 after Start New Series); outside Best-of-5 Restart
\* Game hands the empty board to X.
C22_StarterAlternates ==
  /\ []((bestOf5Enabled /\ pending = {} /\ squares = emptyBoard) =>
          (xIsNext <=> StarterOf(series.gameNumber) = "X"))
  /\ [][(ClickRestartGame \/ ClickNextGame \/ ClickStartNewSeries) =>
          /\ squares' = emptyBoard
          /\ xIsNext' <=> (IF bestOf5Enabled THEN StarterOf(series'.gameNumber) = "X" ELSE TRUE)]_vars
  /\ [][ClickNextGame => series'.gameNumber = series.gameNumber + 1]_vars
  /\ [][ClickStartNewSeries => series' = newSeries]_vars

\* game 2 of a series has just been started by Next Game: the board is empty
\* and O is to move
C22_Witness ==
  /\ bestOf5Enabled /\ series.gameNumber = 2 /\ squares = emptyBoard
  /\ ~ xIsNext /\ lastCountedGameKeyRef = "series-1"
  /\ series.xWins + series.oWins + series.draws = 1

\* the number of results on the scoreboard
Recorded(sr) == sr.xWins + sr.oWins + sr.draws

\* C27: in a Best-of-5 series, once the effects of the last commit have run,
\* the game number lies in 1..5 and the number of recorded results does not
\* exceed it (one result per game at most), so that the two players cannot both
\* hold 3 wins or more.
C27_ResultsWithinGames ==
  (bestOf5Enabled /\ pending = {}) =>
    /\ series.gameNumber \in 1 .. 5
    /\ Recorded(series) <= series.gameNumber
    /\ ~ (series.xWins >= 3 /\ series.oWins >= 3)

\* the number of marks p on board b
MarksOf(b, p) == Cardinality({k \in 1 .. 9 : b[k] = p})
\* this step adds one mark to an empty cell of the board and changes no other cell
OneMarkPlaced ==
  \E k \in 1 .. 9 : \E p \in Symbols :
    squares[k] = Null /\ squares' = [squares EXCEPT ![k] = p]

BoardReset ==
  \/ ClickRestartGame \/ ClickNextGame \/ ClickStartNewSeries
  \/ (RunEffects /\ "series" \in pending /\ bestOf5Enabled)

\* C26: a mark is never overwritten or removed except by a board reset
\* (Restart Game, Next Game, Start New Series, the effect of enabling
\* Best-of-5), and on a board with a winner or a draw no click and no AI
\* callback changes a cell; a reset leaves the empty board.
C26_MarksStay ==
  /\ [][~ BoardReset =>
          /\ \A k \in 1 .. 9 : squares[k] # Null => squares'[k] = squares[k]
          /\ GameOver(getGameOutcome(squares)) => squares' = squares]_vars
  /\ [][(ClickSquare \/ AiTimerFires) =>
          /\ \A k \in 1 .. 9 : squares[k] # Null => squares'[k] = squares[k]
          /\ GameOver(getGameOutcome(squares)) => squares' = squares]_vars
  /\ [][BoardReset => squares' = emptyBoard]_vars

\* the human, playing X against the AI, has completed a line and clicks on: the
\* click on an empty square of the finished board is handled and changes nothing
C26_Witness ==
  /\ scenario = "app" /\ mode = "HUMAN_AI" /\ pending = {}
  /\ outcome.winner = "X" /\ humanPlayer = "X" /\ MarksOf(squares, "O") >= 2
  /\ \E index \in 0 .. 8 : squares[index + 1] = Null /\ handlePlay(state, index) = state

\* C24: on a board with no winner and an empty cell, when some move is
\* non-losing (it wins at once or leaves the opponent no reply that completes a
\* line), the move of Hard is one of them and so is every move Medium returns.
C24_MediumNonLosing ==
  (scenario = "ai" /\ pc = "gotMove" /\ difficulty \in {"Hard", "Medium"}
     /\ ~ HasLine(board) /\ EmptyCells(board) # {}
     /\ NonLosing(board, aiSymbol, humanSymbol) # {}) =>
    move \in NonLosing(board, aiSymbol, humanSymbol)

\* Medium has left the Hard move for another cell on a board where some moves
\* would let the opponent complete a line at once, and the cell is non-losing
C24_Witness ==
  /\ scenario = "ai" /\ pc = "gotMove" /\ difficulty = "Medium"
  /\ ~ HasLine(board) /\ branch = "safeNonBest"
  /\ NonLosing(board, aiSymbol, humanSymbol) # EmptyCells(board)
  /\ move \in NonLosing(board, aiSymbol, humanSymbol)
  /\ Empties(board) = 5

\* C23: the exhaustive search ends on every 9-cell board: each recursive call
\* works on a board with one more cell filled, so the depth of the calls below
\* the root call never exceeds the number of empty cells of the root board (9 at
\* most), and getAiMove returns: a cell on a board that has an empty cell and
\* no winner, no move otherwise.
C23_SearchDepthBounded ==
  (scenario = "ai" /\ difficulty \in {"Hard", "Medium"}) =>
    /\ pc = "idle" =>
         /\ deepestCall(board, aiSymbol, aiSymbol, humanSymbol, 0) <= Empties(board)
         /\ Empties(board) <= 9
         /\ getAiMove(board, aiSymbol, humanSymbol, difficulty) # {}
    /\ pc = "gotMove" =>
         IF HasLine(board) \/ EmptyCells(board) = {}
         THEN move = NoMove
         ELSE move \in EmptyCells(board)

\* Hard has moved on a board with MaxEmpty empty cells whose search filled
\* every one of them
C23_Witness ==
  /\ scenario = "ai" /\ pc = "gotMove" /\ difficulty = "Hard"
  /\ Empties(board) = MaxEmpty /\ move \in EmptyCells(board)
  /\ deepestCall(board, aiSymbol, aiSymbol, humanSymbol, 0) = MaxEmpty

====
